---- MODULE Spec2Model ----
(***************************************************************************)
(* TypedDeepMap (src/typed-deep-map/typed-deep-map.ts) and makeTree        *)
(* (src/make-tree.ts) as state machines.                                   *)
(*                                                                         *)
(* JavaScript values are tagged tuples:                                    *)
(*   <<"num", n>>  <<"null">>  <<"undefined">>  <<"fn">>  <<"bool", b>>     *)
(*   <<"arr", id>>        an array, by reference: its content is heap[id]  *)
(*   <<"obj", entries>>   a plain object, entries in property order        *)
(*   <<"map", entries>>   a Map, entries in insertion order                *)
(*   <<"TypedDeepMap", m>> an instance whose private field map is m        *)
(*   <<"Error", msg>>     a thrown Error                                   *)
(* A string that the code splits or joins is a sequence of characters.     *)
(***************************************************************************)
EXTENDS Integers, Sequences, FiniteSets, TLC

VARIABLES
    input,      \* the argument of the constructor or of fromEntries
    pc,         \* "new" | "ready" | "thrown"
    map,        \* this.map of the instance under test
    call,       \* the last call the client made, with its argument
    ret,        \* what that call returned (the client holds it, and may mutate it)
    heap,       \* content of every array, by reference
    recs,       \* makeTree: the argument obj
    nodeMap,    \* makeTree: nodeMap, id -> node, in insertion order
    rootNodes,  \* makeTree: rootNodes, references to nodes of nodeMap
    tpc,        \* makeTree: "first" | "second" | "done" | "idle"
    ti          \* makeTree: the forEach index

vars == <<input, pc, map, call, ret, heap, recs, nodeMap, rootNodes, tpc, ti>>
mapVars == <<input, pc, map, call, ret, heap>>
treeVars == <<recs, nodeMap, rootNodes, tpc, ti>>

\* ------------------------------------------------------------------ bounds
MaxSize == 2        \* keys of an input object, all levels together
MaxDepth == 2       \* nesting depth of an input object
MaxWidth == 2       \* keys at one level of an input object
MaxPairs == 3       \* pairs handed to fromEntries
MaxMut == 1         \* in-place mutations of one array
MaxRecs == 3        \* records handed to makeTree

\* ------------------------------------------------------------------ values
Num(n) == <<"num", n>>
Null == <<"null">>
Undefined == <<"undefined">>
Fn == <<"fn">>
Bool(b) == <<"bool", b>>
Arr(id) == <<"arr", id>>
Obj(ents) == <<"obj", ents>>
Map(ents) == <<"map", ents>>
Instance(m) == <<"TypedDeepMap", m>>
Error(msg) == <<"Error", msg>>
None == <<"none">>

Dot == "."
Digits == <<"0", "1", "2", "3", "4", "5", "6", "7", "8", "9">>
IsDigit(c) == \E i \in 1..Len(Digits) : Digits[i] = c
DigitVal(c) == (CHOOSE i \in 1..Len(Digits) : Digits[i] = c) - 1

KA == <<"a">>
KB == <<"b">>
KC == <<"c">>
KX == <<"x">>
K1 == <<"1">>
KEmpty == <<>>
KProto == <<"_", "_", "p", "r", "o", "t", "o", "_", "_">>

\* value && typeof value === 'object' && !Array.isArray(value)
Truthy(v) == CASE v[1] = "null" -> FALSE
               [] v[1] = "undefined" -> FALSE
               [] v[1] = "num" -> v[2] # 0
               [] v[1] = "bool" -> v[2]
               [] OTHER -> TRUE
TypeOf(v) == CASE v[1] = "num" -> "number"
               [] v[1] = "bool" -> "boolean"
               [] v[1] = "undefined" -> "undefined"
               [] v[1] = "fn" -> "function"
               [] OTHER -> "object"
IsArray(v) == v[1] = "arr"
InstanceOfMap(v) == v[1] = "map"

\* ------------------------------------------------------------------ Map
Ents(c) == c[2]
IndexOf(ents, k) == CHOOSE i \in 1..Len(ents) : ents[i][1] = k
HasKey(ents, k) == \E i \in 1..Len(ents) : ents[i][1] = k

MapHas(m, k) == HasKey(Ents(m), k)
MapGet(m, k) == IF MapHas(m, k) THEN Ents(m)[IndexOf(Ents(m), k)][2] ELSE Undefined
\* Map.prototype.set: an existing key keeps its place, a new key goes last
MapSet(m, k, v) ==
    IF MapHas(m, k)
    THEN Map([i \in 1..Len(Ents(m)) |-> IF Ents(m)[i][1] = k THEN <<k, v>> ELSE Ents(m)[i]])
    ELSE Map(Append(Ents(m), <<k, v>>))

\* ------------------------------------------------------------------ plain objects
\* An own property key that is a canonical array index: these come first, in
\* ascending numeric order, whatever the order of insertion.
IsArrayIndex(k) ==
    /\ Len(k) >= 1
    /\ \A i \in 1..Len(k) : IsDigit(k[i])
    /\ (Len(k) > 1 => k[1] # "0")
RECURSIVE NumVal(_)
NumVal(k) == IF Len(k) = 0 THEN 0
             ELSE 10 * NumVal(SubSeq(k, 1, Len(k) - 1)) + DigitVal(k[Len(k)])

\* k1 is enumerated before k2 whenever both are own keys and k2 was added last
KeyBefore(k1, k2) ==
    IF IsArrayIndex(k2) THEN IsArrayIndex(k1) /\ NumVal(k1) < NumVal(k2)
    ELSE TRUE

InsertAt(s, i, e) == SubSeq(s, 1, i - 1) \o <<e>> \o SubSeq(s, i, Len(s))

\* obj[key] = value on an object made by {}: an existing property keeps its
\* place; a new one is placed by the property order; the key __proto__ reaches
\* the accessor of Object.prototype and creates no own property.
ObjSet(o, k, v) ==
    IF k = KProto THEN o
    ELSE IF HasKey(Ents(o), k)
    THEN Obj([i \in 1..Len(Ents(o)) |-> IF Ents(o)[i][1] = k THEN <<k, v>> ELSE Ents(o)[i]])
    ELSE LET n == Cardinality({i \in 1..Len(Ents(o)) : KeyBefore(Ents(o)[i][1], k)})
         IN Obj(InsertAt(Ents(o), n + 1, <<k, v>>))

\* Object.entries(obj): own enumerable string-keyed properties, in property order
ObjectEntries(o) == Ents(o)

\* ------------------------------------------------------------------ TypedDeepMap
RECURSIVE buildMapFrom(_, _, _)
\* the loop of buildMap from entry i on, map being the Map built so far
buildMapFrom(es, i, m) ==
    IF i > Len(es) THEN m
    ELSE LET key == es[i][1]
             value == es[i][2]
         IN IF Truthy(value) /\ TypeOf(value) = "object" /\ ~IsArray(value)
            THEN buildMapFrom(es, i + 1,
                     MapSet(m, key, buildMapFrom(ObjectEntries(value), 1, Map(<<>>))))
            ELSE buildMapFrom(es, i + 1, MapSet(m, key, value))

buildMap(obj) == buildMapFrom(ObjectEntries(obj), 1, Map(<<>>))

RECURSIVE toObjectFrom(_, _, _)
toObjectFrom(es, i, obj) ==
    IF i > Len(es) THEN obj
    ELSE LET key == es[i][1]
             value == es[i][2]
         IN toObjectFrom(es, i + 1,
                ObjSet(obj, key,
                    IF InstanceOfMap(value) THEN toObjectFrom(Ents(value), 1, Obj(<<>>))
                    ELSE value))

toObject(m) == toObjectFrom(Ents(m), 1, Obj(<<>>))

\* `${prefix}.${key}` when prefix is truthy (a non-empty string), else key
FullKey(prefix, key) == IF Len(prefix) > 0 THEN prefix \o <<Dot>> \o key ELSE key

RECURSIVE walk(_, _, _)
\* walk(map, prefix) from entry i on: the pairs it pushes onto result, in order
walk(es, i, prefix) ==
    IF i > Len(es) THEN <<>>
    ELSE LET key == es[i][1]
             value == es[i][2]
             fullKey == FullKey(prefix, key)
         IN (IF InstanceOfMap(value) THEN walk(Ents(value), 1, fullKey)
             ELSE << <<fullKey, value>> >>)
            \o walk(es, i + 1, prefix)

entries(m) == walk(Ents(m), 1, <<>>)

RECURSIVE split(_)
\* String.prototype.split('.'): never empty, "" gives [""]
split(s) ==
    IF \A i \in 1..Len(s) : s[i] # Dot THEN <<s>>
    ELSE LET i == CHOOSE j \in 1..Len(s) : s[j] = Dot /\ \A h \in 1..(j - 1) : s[h] # Dot
         IN <<SubSeq(s, 1, i - 1)>> \o split(SubSeq(s, i + 1, Len(s)))

\* mutant: the message names the first segment, not the path
PathConflictAtKey(path) == Error(<<"Path conflict at", split(path)[1]>>)
\* new Error(`Path conflict at "${path}"`)
PathConflict(path) == Error(<<"Path conflict at", path>>)
IsError(v) == v[1] = "Error"

RECURSIVE setPathStrict(_, _, _, _, _)
\* mutant: the final segment is conflict-checked too (a Node there throws)
setPathStrict(current, keys, i, value, path) ==
    LET key == keys[i] IN
    IF i = Len(keys)
    THEN IF InstanceOfMap(MapGet(current, key)) THEN PathConflict(path)
         ELSE MapSet(current, key, value)
    ELSE LET cur1 == IF ~MapHas(current, key) THEN MapSet(current, key, Map(<<>>))
                     ELSE current
             next == MapGet(cur1, key)
         IN IF ~InstanceOfMap(next) THEN PathConflict(path)
            ELSE LET sub == setPathStrict(next, keys, i + 1, value, path)
                 IN IF IsError(sub) THEN sub ELSE MapSet(cur1, key, sub)

RECURSIVE setPathKeep(_, _, _, _, _)
\* mutant: the final segment keeps a value that is already there
setPathKeep(current, keys, i, value, path) ==
    LET key == keys[i] IN
    IF i = Len(keys)
    THEN IF MapHas(current, key) THEN current ELSE MapSet(current, key, value)
    ELSE LET cur1 == IF ~MapHas(current, key) THEN MapSet(current, key, Map(<<>>))
                     ELSE current
             next == MapGet(cur1, key)
         IN IF ~InstanceOfMap(next) THEN PathConflict(path)
            ELSE LET sub == setPathKeep(next, keys, i + 1, value, path)
                 IN IF IsError(sub) THEN sub ELSE MapSet(cur1, key, sub)

RECURSIVE setPath(_, _, _, _, _)
\* the inner loop of fromEntries from keys[i] on, current being the Map reached:
\* the Map as the loop leaves it, or the Error it throws
setPath(current, keys, i, value, path) ==
    LET key == keys[i] IN
    IF i = Len(keys) THEN MapSet(current, key, value)
    ELSE LET cur1 == IF ~MapHas(current, key) THEN MapSet(current, key, Map(<<>>))
                     ELSE current
             next == MapGet(cur1, key)
         IN IF ~InstanceOfMap(next) THEN PathConflict(path)
            ELSE LET sub == setPath(next, keys, i + 1, value, path)
                 IN IF IsError(sub) THEN sub ELSE MapSet(cur1, key, sub)

RECURSIVE fromEntriesFrom(_, _, _)
\* the outer loop from pair n on: root as the loop leaves it, or the Error thrown
fromEntriesFrom(pairs, n, root) ==
    IF n > Len(pairs) THEN root
    ELSE LET path == pairs[n][1]
             value == pairs[n][2]
             r == setPath(root, split(path), 1, value, path)
         IN IF IsError(r) THEN r ELSE fromEntriesFrom(pairs, n + 1, r)

\* TypedDeepMap.fromEntries: the instance returned, or the Error thrown
fromEntries(pairs) ==
    LET root == fromEntriesFrom(pairs, 1, Map(<<>>))
    IN IF IsError(root) THEN root ELSE Instance(root)

\* get(key) on an instance whose map is m
get(m, key) ==
    LET value == MapGet(m, key)
    IN IF InstanceOfMap(value) THEN Instance(buildMap(toObject(value))) ELSE value

has(m, key) == Bool(MapHas(m, key))

unpack(m) == toObject(m)


\* ------------------------------------------------------------------ inputs
ObjKeys == {KA, K1, KEmpty, KProto}
ArrIds == {1}
LeafValues == {Num(1), Null, Fn, Arr(1)}

\* key sequences an object can have: distinct keys, array indices first
JSOrdered(ks) ==
    \A i, j \in 1..Len(ks) :
        i < j => /\ ks[i] # ks[j]
                 /\ (IsArrayIndex(ks[j]) => IsArrayIndex(ks[i]) /\ NumVal(ks[i]) < NumVal(ks[j]))
KeySeqs(w) == {ks \in [1..w -> ObjKeys] : JSOrdered(ks)}

RECURSIVE Objects(_, _), Fill(_, _, _, _)
\* plain objects of nesting depth at most d with n keys in all
Objects(n, d) ==
    IF d = 0 THEN {}
    ELSE UNION {{Obj(es) : es \in UNION {Fill(ks, w, n, d) : ks \in KeySeqs(w)}}
                : w \in 0..(IF n < MaxWidth THEN n ELSE MaxWidth)}
\* entry sequences for keys ks[1..i] holding n keys in all, these i included
Fill(ks, i, n, d) ==
    IF i = 0 THEN (IF n = 0 THEN {<<>>} ELSE {})
    ELSE UNION {{Append(es, <<ks[i], v>>) :
                    es \in Fill(ks, i - 1, n - 1 - m, d),
                    v \in (IF m = 0 THEN LeafValues ELSE {}) \cup Objects(m, d - 1)}
                : m \in 0..(n - 1)}

AllObjects == UNION {Objects(n, MaxDepth) : n \in 0..MaxSize}

PA == <<"a">>
PAB == <<"a", ".", "b">>
PABC == <<"a", ".", "b", ".", "c">>
PA1 == <<"a", ".", "1">>
PathSet == {PA, PAB, PABC, PA1}
PairValues == {Num(1), Num(2), Obj(<< <<KX, Num(1)>> >>)}
AllPairLists == UNION {[1..n -> PathSet \X PairValues] : n \in 0..MaxPairs}

\* the keys a client asks for: those the Store has at its top level, and one it has not
QueryKeys == {KB} \cup (IF InstanceOfMap(map) THEN {Ents(map)[i][1] : i \in 1..Len(Ents(map))} ELSE {})

\* ------------------------------------------------------------------ actions
IdleTree == recs = <<>> /\ nodeMap = <<>> /\ rootNodes = <<>> /\ tpc = "idle" /\ ti = 0
IdleMap == input = None /\ pc = "idle" /\ map = None /\ call = None /\ ret = None
           /\ heap = [i \in ArrIds |-> 0]

InitObj ==
    /\ input \in AllObjects
    /\ pc = "new" /\ map = None /\ call = None /\ ret = None
    /\ heap = [i \in ArrIds |-> 0]
    /\ IdleTree

InitPairs ==
    /\ input \in {<<"pairs", ps>> : ps \in AllPairLists}
    /\ pc = "new" /\ map = None /\ call = None /\ ret = None
    /\ heap = [i \in ArrIds |-> 0]
    /\ IdleTree

\* new TypedDeepMap(obj)
Construct ==
    /\ pc = "new" /\ input[1] = "obj"
    /\ map' = buildMap(input)
    /\ pc' = "ready"
    /\ call' = <<"new">>
    /\ ret' = None
    /\ UNCHANGED <<input, heap, treeVars>>

\* TypedDeepMap.fromEntries(pairs): root stays private unless the call returns
FromEntries ==
    /\ pc = "new" /\ input[1] = "pairs"
    /\ LET r == fromEntries(input[2])
       IN IF IsError(r)
          THEN pc' = "thrown" /\ map' = None /\ ret' = r
          ELSE pc' = "ready" /\ map' = r[2] /\ ret' = None
    /\ call' = <<"fromEntries">>
    /\ UNCHANGED <<input, heap, treeVars>>

GetInPlace(key) ==
    /\ pc = "ready"
    /\ call' = <<"get", key>>
    /\ ret' = get(map, key)
    /\ map' = IF InstanceOfMap(MapGet(map, key)) THEN MapGet(map, key) ELSE map
    /\ UNCHANGED <<input, pc, heap, treeVars>>
Get(key) ==
    /\ pc = "ready"
    /\ call' = <<"get", key>>
    /\ ret' = get(map, key)
    /\ UNCHANGED <<input, pc, map, heap, treeVars>>

Has(key) ==
    /\ pc = "ready"
    /\ call' = <<"has", key>>
    /\ ret' = has(map, key)
    /\ UNCHANGED <<input, pc, map, heap, treeVars>>

Entries ==
    /\ pc = "ready"
    /\ call' = <<"entries">>
    /\ ret' = entries(map)
    /\ UNCHANGED <<input, pc, map, heap, treeVars>>

Unpack ==
    /\ pc = "ready"
    /\ call' = <<"unpack">>
    /\ ret' = unpack(map)
    /\ UNCHANGED <<input, pc, map, heap, treeVars>>

\* entries() / unpack() on the instance that get(key) returned
SubEntries ==
    /\ pc = "ready" /\ call[1] = "get" /\ ret[1] = "TypedDeepMap"
    /\ call' = <<"get.entries", call[2]>>
    /\ ret' = entries(ret[2])
    /\ UNCHANGED <<input, pc, map, heap, treeVars>>

SubUnpack ==
    /\ pc = "ready" /\ call[1] = "get" /\ ret[1] = "TypedDeepMap"
    /\ call' = <<"get.unpack", call[2]>>
    /\ ret' = unpack(ret[2])
    /\ UNCHANGED <<input, pc, map, heap, treeVars>>

\* TypedDeepMap.fromEntries(store.entries())
Rebuild ==
    /\ pc = "ready" /\ call = <<"entries">>
    /\ call' = <<"fromEntries(entries)">>
    /\ ret' = fromEntries(ret)
    /\ UNCHANGED <<input, pc, map, heap, treeVars>>

\* The client writes a property of the object unpack() returned: of the object
\* itself, or of a nested object that toObject made for a nested Map.
AssignProp ==
    /\ pc = "ready" /\ call[1] \in {"unpack", "get.unpack"}
    /\ \E k \in QueryKeys :
          \/ ret' = ObjSet(ret, k, Num(2))
          \/ /\ HasKey(Ents(ret), k)
             /\ InstanceOfMap(MapGet(map, k))
             /\ call[1] = "unpack"
             /\ ret' = ObjSet(ret, k, ObjSet(Ents(ret)[IndexOf(Ents(ret), k)][2], KA, Num(2)))
    /\ call' = <<"assigned">>
    /\ UNCHANGED <<input, pc, map, heap, treeVars>>

RECURSIVE Reaches(_, _)
\* the array id is reachable from value v through plain objects
Reaches(v, id) ==
    \/ v = Arr(id)
    \/ /\ v[1] = "obj"
       /\ \E i \in 1..Len(Ents(v)) : Reaches(Ents(v)[i][2], id)

\* The client mutates, in place, an array it finds in the object unpack() returned
\* (push, pop, index assignment): toObject copied the reference, not the array.
MutateArray ==
    /\ pc = "ready" /\ call[1] \in {"unpack", "get.unpack", "assigned"}
    /\ \E id \in ArrIds :
          /\ Reaches(ret, id)
          /\ heap[id] < MaxMut
          /\ heap' = [heap EXCEPT ![id] = @ + 1]
    /\ call' = <<"mutated">>
    /\ UNCHANGED <<input, pc, map, ret, treeVars>>

Reads ==
    \/ \E key \in QueryKeys : Get(key)
    \/ \E key \in QueryKeys : Has(key)
    \/ Entries
    \/ Unpack
    \/ SubEntries
    \/ SubUnpack
    \/ Rebuild

Client == AssignProp \/ MutateArray

NextObj == Construct \/ Reads \/ Client
NextPairs == FromEntries \/ Reads

SpecObj == InitObj /\ [][NextObj]_vars
SpecPairs == InitPairs /\ [][NextPairs]_vars

\* ------------------------------------------------------------------ claims: object form
\* C1: unpack(build(O)) is deep-equal to O: the same keys in the same order at
\* every level, the same leaf values, the same nested shape.
C1_ObjectRoundTrip ==
    (input[1] = "obj" /\ call = <<"unpack">>) => ret = input

RECURSIVE NoDotKeys(_)
NoDotKeys(o) ==
    \A i \in 1..Len(Ents(o)) :
        /\ \A h \in 1..Len(Ents(o)[i][1]) : Ents(o)[i][1][h] # Dot
        /\ (Ents(o)[i][2][1] = "obj" => NoDotKeys(Ents(o)[i][2]))

\* C2: for O without '.' in its keys, fromEntries(entries(build(O))) is a Store
\* structurally equal to build(O), and unpacking it gives O back.
C2_FlatRoundTrip ==
    (input[1] = "obj" /\ call = <<"fromEntries(entries)">> /\ NoDotKeys(input))
        => /\ ret = Instance(map)
           /\ toObject(ret[2]) = input

RECURSIVE RefWalk(_, _, _), LeafCount(_)
\* the preorder flattening of section 4.4: a Leaf emits prefix + key, a Node
\* passes prefix + key + "." to its subtree
RefWalk(es, i, prefix) ==
    IF i > Len(es) THEN <<>>
    ELSE (IF InstanceOfMap(es[i][2])
          THEN RefWalk(Ents(es[i][2]), 1, prefix \o es[i][1] \o <<Dot>>)
          ELSE << <<prefix \o es[i][1], es[i][2]>> >>)
         \o RefWalk(es, i + 1, prefix)
\* the values of O that the Builder does not traverse
LeafCount(o) ==
    IF o[1] # "obj" THEN 1
    ELSE IF Len(Ents(o)) = 0 THEN 0
    ELSE LeafCount(Ents(o)[1][2]) + LeafCount(Obj(Tail(Ents(o))))

\* C4: entries(S) is the reference preorder flattening: one pair per Leaf, none
\* for a Node, each path the dot-join of the keys from the root, in depth-first
\* insertion order; so its length is the number of leaves of O.
C4_EntriesReference ==
    (input[1] = "obj" /\ call = <<"entries">>)
        => /\ ret = RefWalk(Ents(map), 1, <<>>)
           /\ Len(ret) = LeafCount(input)

\* C5: get(k) on a key whose entry is a Node with child C returns a Store
\* structurally equal to C.
C5_GetEqualsChild ==
    (call[1] = "get" /\ InstanceOfMap(MapGet(map, call[2])))
        => ret = Instance(MapGet(map, call[2]))

\* what entries() of the instance holds, array contents included
DeepEntries ==
    IF pc # "ready" THEN <<>>
    ELSE [i \in 1..Len(entries(map)) |->
            LET e == entries(map)[i]
            IN IF IsArray(e[2]) THEN <<e[1], e[2], heap[e[2][2]]>> ELSE e]

\* C7 as stated: after any reading call, and any mutation of what unpack
\* returned, the Store is as before and entries(S) is the same sequence.
C7_ReadsFrame ==
    [][pc = "ready" => (map' = map /\ DeepEntries' = DeepEntries)]_vars

\* C7 amended: reading calls and writes to the objects unpack made leave the
\* Store's keys, variants and leaf references as they were, and entries() returns
\* the same paths with the same leaf references.
C7_ReadsFrameAmended ==
    [][pc = "ready" => (map' = map /\ (call' = <<"entries">> => ret' = entries(map)))]_vars

C7_Witness ==
    pc = "ready" /\ call = <<"mutated">> /\ \E id \in ArrIds : heap[id] > 0

\* ------------------------------------------------------------------ claims: flat form
Pairs == input[2]
Called == input[1] = "pairs" /\ pc \in {"ready", "thrown"}
KeysOf(j) == split(Pairs[j][1])
StrictPrefix(p, q) == Len(p) < Len(q) /\ SubSeq(q, 1, Len(p)) = p
IsPathConflict(v) == v[1] = "Error" /\ v[2][1] = "Path conflict at"

Absent == <<"absent">>
RECURSIVE Resolve(_, _, _)
\* the entry that keys[1..n] leads to from Map m, through Nodes only
Resolve(m, keys, n) ==
    IF n = 0 THEN m
    ELSE LET up == Resolve(m, keys, n - 1)
         IN IF InstanceOfMap(up) /\ MapHas(up, keys[n]) THEN MapGet(up, keys[n])
            ELSE Absent
IsLeafAt(m, keys, n) == Resolve(m, keys, n) # Absent /\ ~InstanceOfMap(Resolve(m, keys, n))
IsNodeAt(m, keys, n) == InstanceOfMap(Resolve(m, keys, n))

\* the Store built from the first n pairs (or the Error thrown on the way)
SoFar(n) == fromEntriesFrom(SubSeq(Pairs, 1, n), 1, Map(<<>>))
\* pair j meets a Leaf at a non-final segment of its path
ConflictAt(j) ==
    /\ ~IsError(SoFar(j - 1))
    /\ \E n \in 1..(Len(KeysOf(j)) - 1) : IsLeafAt(SoFar(j - 1), KeysOf(j), n)
Least(S) == CHOOSE x \in S : \A y \in S : x <= y

Example1 == << <<PAB, Num(1)>>, <<PABC, Num(2)>> >>
Example2 == << <<PABC, Num(2)>>, <<PAB, Num(1)>> >>

\* C3 as stated: a list holding two paths, one a strict dot-prefix of the other,
\* fails with PathConflict whichever of the two comes first.
C3_OrderIndependent ==
    (Called /\ \E i, j \in 1..Len(Pairs) : StrictPrefix(KeysOf(i), KeysOf(j)))
        => (pc = "thrown" /\ IsPathConflict(ret))

\* C3 amended: fromEntries fails with PathConflict exactly when a path comes
\* before a path it is a strict dot-prefix of; [["a.b",1],["a.b.c",2]] fails, and
\* [["a.b.c",2],["a.b",1]] returns a Store whose a.b is the Leaf 1.
C3_ShorterFirst ==
    Called =>
        /\ (pc = "thrown") <=>
              (\E i, j \in 1..Len(Pairs) : i < j /\ StrictPrefix(KeysOf(i), KeysOf(j)))
        /\ (pc = "thrown" => IsPathConflict(ret))
        /\ (Pairs = Example1 => pc = "thrown")
        /\ (Pairs = Example2 =>
               pc = "ready" /\ map = Map(<< <<KA, Map(<< <<KB, Num(1)>> >>)>> >>))

C3_Witness ==
    Pairs = Example2 /\ pc = "ready" /\ call = <<"fromEntries">>

\* C8: fromEntries throws PathConflict exactly when, in order, a non-final
\* segment of a path resolves to a Leaf of the Store built so far; the error
\* names that path and no Store is returned; otherwise a Store is returned and
\* every missing intermediate key was created as an empty Node.
C8_PathConflict ==
    Called =>
        LET bad == {j \in 1..Len(Pairs) : ConflictAt(j)} IN
        /\ (pc = "thrown") <=> (bad # {})
        /\ (pc = "thrown" =>
               /\ ret = Error(<<"Path conflict at", Pairs[Least(bad)][1]>>)
               /\ map = None)
        /\ (pc = "ready" =>
               /\ map = SoFar(Len(Pairs))
               /\ \A j \in 1..Len(Pairs) : \A n \in 1..(Len(KeysOf(j)) - 1) :
                     /\ IsNodeAt(SoFar(j), KeysOf(j), n)
                     /\ (Resolve(SoFar(j - 1), KeysOf(j), n) = Absent
                            => Len(Ents(Resolve(SoFar(j), KeysOf(j), n))) = 1))

C8_Witness ==
    /\ Called /\ pc = "thrown" /\ Len(Pairs) = MaxPairs
    /\ ret = Error(<<"Path conflict at", Pairs[2][1]>>)

\* the value of the last pair that carries the path of pair j
LastValue(j) ==
    Pairs[Least({i \in 1..Len(Pairs) :
                    /\ Pairs[i][1] = Pairs[j][1]
                    /\ \A h \in (i + 1)..Len(Pairs) : Pairs[h][1] # Pairs[j][1]})][2]

Nil == "nil"
IdSet == {"x", "y", "z"}
ParentSet == IdSet
Records == [id : IdSet \cup {Nil}, parentId : ParentSet \cup {Nil}]
Node(src, children) == <<"node", src, children>>
SrcOf(n) == n[2]
ChildrenOf(n) == n[3]

InitTree ==
    /\ recs \in UNION {[1..n -> Records] : n \in 0..MaxRecs}
    /\ nodeMap = Map(<<>>)
    /\ rootNodes = <<>>
    /\ tpc = "first"
    /\ ti = 1
    /\ IdleMap

\* one call of the callback of the first obj.forEach
FirstPass ==
    /\ tpc = "first" /\ ti <= Len(recs)
    /\ LET data == recs[ti]
           nodeId == data.id
       IN IF nodeId = Nil
          THEN UNCHANGED nodeMap
          ELSE nodeMap' = MapSet(nodeMap, nodeId, Node(ti, <<>>))
    /\ ti' = ti + 1
    /\ UNCHANGED <<recs, rootNodes, tpc, mapVars>>

\* const rootNodes = []: the first forEach is over
StartSecond ==
    /\ tpc = "first" /\ ti > Len(recs)
    /\ tpc' = "second"
    /\ ti' = 1
    /\ rootNodes' = <<>>
    /\ UNCHANGED <<recs, nodeMap, mapVars>>

\* mutant: a node whose parent is unknown is dropped, not made a root
SecondPassDropOrphans ==
    /\ tpc = "second" /\ ti <= Len(recs)
    /\ LET data == recs[ti]
           nodeId == data.id
           parentId == data.parentId
       IN IF ~MapHas(nodeMap, nodeId)
          THEN UNCHANGED <<nodeMap, rootNodes>>
          ELSE IF parentId # Nil /\ MapHas(nodeMap, parentId)
          THEN /\ nodeMap' = MapSet(nodeMap, parentId,
                      Node(SrcOf(MapGet(nodeMap, parentId)),
                           Append(ChildrenOf(MapGet(nodeMap, parentId)), nodeId)))
               /\ UNCHANGED rootNodes
          ELSE IF parentId = Nil
          THEN /\ rootNodes' = Append(rootNodes, nodeId)
               /\ UNCHANGED nodeMap
          ELSE UNCHANGED <<nodeMap, rootNodes>>
    /\ ti' = ti + 1
    /\ UNCHANGED <<recs, tpc, mapVars>>

\* mutant: every node is pushed onto rootNodes, a child too
SecondPassAllRoots ==
    /\ tpc = "second" /\ ti <= Len(recs)
    /\ LET data == recs[ti]
           nodeId == data.id
           parentId == data.parentId
       IN IF ~MapHas(nodeMap, nodeId)
          THEN UNCHANGED <<nodeMap, rootNodes>>
          ELSE /\ rootNodes' = Append(rootNodes, nodeId)
               /\ IF parentId # Nil /\ MapHas(nodeMap, parentId)
                  THEN nodeMap' = MapSet(nodeMap, parentId,
                          Node(SrcOf(MapGet(nodeMap, parentId)),
                               Append(ChildrenOf(MapGet(nodeMap, parentId)), nodeId)))
                  ELSE UNCHANGED nodeMap
    /\ ti' = ti + 1
    /\ UNCHANGED <<recs, tpc, mapVars>>

\* one call of the callback of the second obj.forEach
SecondPass ==
    /\ tpc = "second" /\ ti <= Len(recs)
    /\ LET data == recs[ti]
           nodeId == data.id
           parentId == data.parentId
       IN IF ~MapHas(nodeMap, nodeId)
          THEN UNCHANGED <<nodeMap, rootNodes>>
          ELSE IF parentId # Nil /\ MapHas(nodeMap, parentId)
          THEN /\ nodeMap' = MapSet(nodeMap, parentId,
                      Node(SrcOf(MapGet(nodeMap, parentId)),
                           Append(ChildrenOf(MapGet(nodeMap, parentId)), nodeId)))
               /\ UNCHANGED rootNodes
          ELSE /\ rootNodes' = Append(rootNodes, nodeId)
               /\ UNCHANGED nodeMap
    /\ ti' = ti + 1
    /\ UNCHANGED <<recs, tpc, mapVars>>

\* return rootNodes
Return ==
    /\ tpc = "second" /\ ti > Len(recs)
    /\ tpc' = "done"
    /\ UNCHANGED <<recs, nodeMap, rootNodes, ti, mapVars>>

NextTree == FirstPass \/ StartSecond \/ SecondPass \/ Return
SpecTree == InitTree /\ [][NextTree]_vars

\* ------------------------------------------------------------------ claims: makeTree
Done == tpc = "done"
NodeAt(ref) == MapGet(nodeMap, ref)
\* the records the caller sees behind a list of node references
SrcSeq(refs) == [i \in 1..Len(refs) |-> SrcOf(NodeAt(refs[i]))]
RECURSIVE Ascending(_, _)
\* the members of S that are at least lo, in ascending order
Ascending(S, lo) ==
    IF \A x \in S : x < lo THEN <<>>
    ELSE LET m == Least({x \in S : x >= lo}) IN <<m>> \o Ascending(S, m + 1)

HasId(j) == recs[j].id # Nil
IdKnown(p) == p # Nil /\ \E k \in 1..Len(recs) : recs[k].id = p
ExpectedRoots ==
    Ascending({j \in 1..Len(recs) : HasId(j) /\ ~IdKnown(recs[j].parentId)}, 1)
ExpectedChildren(j) ==
    Ascending({k \in 1..Len(recs) : k # j /\ HasId(k) /\ recs[k].parentId = recs[j].id}, 1)

RECURSIVE ReachIn(_, _)
\* the node references reachable from those of R in at most n steps
ReachIn(R, n) ==
    IF n = 0 THEN R
    ELSE ReachIn(R \cup UNION {{ChildrenOf(NodeAt(r))[i] : i \in 1..Len(ChildrenOf(NodeAt(r)))}
                                : r \in R}, n - 1)
InForest == ReachIn({rootNodes[i] : i \in 1..Len(rootNodes)}, Len(recs))

UniqueIds ==
    \A j, k \in 1..Len(recs) : (j # k /\ HasId(j)) => recs[j].id # recs[k].id

ReferenceForest ==
    /\ SrcSeq(rootNodes) = ExpectedRoots
    /\ \A r \in InForest :
          /\ HasId(SrcOf(NodeAt(r)))
          /\ SrcSeq(ChildrenOf(NodeAt(r))) = ExpectedChildren(SrcOf(NodeAt(r)))

\* C6 as stated: the roots are, in input order, the records with an id whose
\* parent id is null or no record's id; every node of the output holds, in input
\* order, every other record whose parent id is its id; a record without id is
\* nowhere in the output.
C6_ReferenceForest == Done => ReferenceForest

\* C6 amended: the same, for records whose ids are pairwise distinct.
C6_ReferenceForestUniqueIds == (Done /\ UniqueIds) => ReferenceForest

C6_Witness ==
    /\ Done /\ UniqueIds /\ Len(recs) = MaxRecs
    /\ \E j \in 1..Len(recs) : ~HasId(j)
    /\ \E r \in InForest : Len(ChildrenOf(NodeAt(r))) >= 1 /\ recs[SrcOf(NodeAt(r))].parentId # Nil

RECURSIVE Occ(_, _, _), OccAll(_, _, _)
\* how often record j occurs in the tree under ref, unfolded d levels deep
Occ(ref, j, d) ==
    (IF SrcOf(NodeAt(ref)) = j THEN 1 ELSE 0)
    + (IF d = 0 THEN 0 ELSE OccAll(ChildrenOf(NodeAt(ref)), j, d - 1))
OccAll(refs, j, d) ==
    IF Len(refs) = 0 THEN 0 ELSE Occ(refs[1], j, d) + OccAll(Tail(refs), j, d)

Acyclic ==
    \A r \in InForest :
        r \notin ReachIn({ChildrenOf(NodeAt(r))[i] : i \in 1..Len(ChildrenOf(NodeAt(r)))},
                         Len(recs))
EachOnce ==
    /\ \A j \in 1..Len(recs) : HasId(j) => OccAll(rootNodes, j, Len(recs)) = 1
    /\ Acyclic

\* the parent links from id p lead, in at most n steps, to a record that is a root
RECURSIVE LeadsToRoot(_, _)
LeadsToRoot(p, n) ==
    LET j == CHOOSE k \in 1..Len(recs) : recs[k].id = p
    IN \/ ~IdKnown(recs[j].parentId)
       \/ n > 0 /\ LeadsToRoot(recs[j].parentId, n - 1)
NoParentCycle == \A j \in 1..Len(recs) : HasId(j) => LeadsToRoot(recs[j].id, Len(recs))

\* C10 as stated: every record with an id occurs exactly once in the forest
\* under the returned roots, and that forest is finite and acyclic.
C10_EachRecordOnce == Done => EachOnce

\* C10 amended: the same, for records whose ids are pairwise distinct and whose
\* parent links form no cycle.
C10_EachRecordOnceInTree == (Done /\ UniqueIds /\ NoParentCycle) => EachOnce

C10_Witness ==
    /\ Done /\ UniqueIds /\ NoParentCycle /\ Len(recs) = MaxRecs
    /\ \A j \in 1..Len(recs) : HasId(j)
    /\ Len(rootNodes) = 1
    /\ \E r \in InForest : r \notin {rootNodes[i] : i \in 1..Len(rootNodes)}
                           /\ Len(ChildrenOf(NodeAt(r))) = 1

====
